---- MODULE Spec2Model ----
(***************************************************************************)
(* Command execution and sequencing engine of PortageGUI.py:               *)
(* CommandWorker / GenericWorker threads, their external process, the      *)
(* queued delivery of their signals to the control (GUI) thread, and the   *)
(* handlers of GentooPackageManagerGUI that keep self.current_worker and   *)
(* chain the load sequence INSTALLED -> AVAILABLE -> UPDATES -> COMPLETE.  *)
(*                                                                         *)
(* Threads: one control thread (position mpc) and one thread per worker    *)
(* (position workers[w].pc).  A signal emitted by a worker thread is       *)
(* queued (Qt queued connection) and handled later by the control thread,  *)
(* one handler at a time; stop() runs on the control thread and blocks it  *)
(* while the worker thread keeps running.                                  *)
(*                                                                         *)
(* LoadSpec is the load sequence started by __init__ with the Cancel       *)
(* Operation button, FairSpec the same under fair scheduling, Spec adds    *)
(* the Refresh and emerge buttons, ApiSpec adds direct calls of            *)
(* _start_next_load_step.                                                  *)
(***************************************************************************)
EXTENDS Integers, Sequences, FiniteSets, TLC

(* ------------------------------ bounds -------------------------------- *)
\* worker objects that exist at once (thread not yet ended, or a signal still
\* queued); a handler that needs one more waits for a returned thread to end
MaxSlots == 2
\* stdout lines the processes of one run write
MaxLines == 1
\* button presses of the user that are acted on in one run
MaxRequests == 1
\* stdout lines a command has written by the time its output is parsed
MaxOutput == 11
\* lines in a list given to parse_eix_output
MaxEix == 3
\* chunks of output the stderr pipe holds before a write to it blocks
PipeCapacity == 1

(* ------------------------- program constants -------------------------- *)
COMMAND_TIMEOUT == 300
LOAD_STEP_INSTALLED == 0
LOAD_STEP_AVAILABLE == 1
LOAD_STEP_UPDATES == 2
LOAD_STEP_COMPLETE == 3

(* ------------------------------- text --------------------------------- *)
\* Python's `phrase in msg` on str: a character-level substring test
Contains(msg, phrase) ==
    \E i \in 1..(Len(msg) - Len(phrase) + 1) :
        SubSeq(msg, i, i + Len(phrase) - 1) = phrase

IsSpace(c) == c \in {" ", "\n", "\t", "\r"}

RECURSIVE LStrip(_)
LStrip(s) ==
    IF Len(s) > 0 /\ IsSpace(SubSeq(s, 1, 1)) THEN LStrip(SubSeq(s, 2, Len(s))) ELSE s

RECURSIVE RStrip(_)
RStrip(s) ==
    IF Len(s) > 0 /\ IsSpace(SubSeq(s, Len(s), Len(s)))
    THEN RStrip(SubSeq(s, 1, Len(s) - 1)) ELSE s

\* str.strip()
Strip(s) == LStrip(RStrip(s))

\* ' '.join(command_list) of the command each task runs
CommandText(task) ==
    CASE task = "installed" -> "equery list --installed */*"
      [] task = "available" -> "eix -c --only-names */*"
      [] task = "updates"   -> "emerge -upvND @world"
      [] task = "sync"      -> "emerge --sync"
      [] OTHER              -> "emerge --ask=n --verbose app-misc/foo"

\* command_list[0]
CommandName(task) ==
    CASE task = "installed" -> "equery"
      [] task = "available" -> "eix"
      [] OTHER              -> "emerge"

IsGeneric(task) == task \in {"installed", "available", "updates"}

\* full_command as joined in the failure message (CommandWorker prepends pkexec)
FullCommandText(task) ==
    IF IsGeneric(task) THEN CommandText(task)
    ELSE "pkexec --disable-internal-agent " \o CommandText(task)

(* --------------------------- sample inputs ---------------------------- *)
\* What a process can have written to stderr by the time it is read: nothing, and
\* texts with the phrases the handlers of the task look for, alone and together.
StderrTexts(task) ==
    CASE task = "updates" ->
             { "",
               "Nothing to merge; quitting.\n",
               "!!! Permission denied: '/var/db/repos'\n",
               "emerge: superuser access is required, are you root?\nExiting.\n",
               "Operation Cancelled\nExiting.\n",
               "sh: Command not found\n" }
      [] IsGeneric(task) -> { "", "Operation Cancelled\n", "sh: Command not found\n" }
      [] OTHER -> { "", "Operation Cancelled\n" }

\* raw stdout lines as readline() returns them
StdoutLines == { "app-misc/foo-1.0\n" }

\* exit codes of a process that exits by itself
ExitCodes == { 0, 1 }
SIGTERM == 15
SIGKILL == 9

(* ------------------------------ messages ------------------------------ *)
MsgCancelled == "Operation Cancelled"

MsgPkexecMissing == "Error: 'pkexec' command not found. Is PolicyKit installed?"

MsgNotFound(task) ==
    IF IsGeneric(task)
    THEN "Error: Command '" \o CommandName(task) \o "' not found. Is it installed and in PATH?"
    ELSE "Error: Command '" \o CommandName(task) \o "' not found."

MsgTimeout == "Command timed out after " \o ToString(COMMAND_TIMEOUT) \o " seconds."

MsgUnexpected(task) ==
    IF IsGeneric(task)
    THEN "An unexpected error occurred in GenericWorker: [Errno 13] Permission denied: '"
             \o CommandName(task) \o "'"
    ELSE "An unexpected error occurred in CommandWorker: [Errno 13] Permission denied: 'pkexec'"

MsgFailed(task, code, stderr_output) ==
    "Command failed with exit code " \o ToString(code) \o ".\n"
        \o "Command: " \o FullCommandText(task) \o "\n"
        \o (IF stderr_output # "" THEN "Stderr:\n" \o Strip(stderr_output)
            ELSE "No stderr output captured.")

RECURSIVE JoinLines(_)
JoinLines(lines) ==
    IF lines = << >> THEN ""
    ELSE IF Len(lines) = 1 THEN lines[1]
    ELSE lines[1] \o " " \o JoinLines(Tail(lines))

\* the parser's error carrying every output line
MsgParse_all_lines(lines) ==
    "Error parsing command output: list index out of range\nOutput:\n"
        \o JoinLines(lines) \o "..."

MsgParse(lines) ==
    "Error parsing command output: list index out of range\nOutput:\n"
        \o JoinLines(SubSeq(lines, 1, IF Len(lines) < 10 THEN Len(lines) ELSE 10)) \o "..."

MsgConflict == "Internal Error: Task conflict during sequential load."

(* ------------------------------- state -------------------------------- *)
VARIABLES
    workers,           \* the CommandWorker / GenericWorker objects that exist, by slot
    queue,             \* signals emitted by worker threads, not yet handled
    current_worker,    \* self.current_worker: a slot of workers, 0 for None
    progress_visible,  \* self.progress_bar.isVisible()
    cancel_enabled,    \* self.cancel_button.isEnabled()
    stored,            \* the data each load step's result handler keeps
    mpc,               \* position of the control thread
    stopw,             \* the worker whose stop() the control thread is inside
    requests,          \* button presses acted on so far
    written,           \* stdout lines written so far
    orphans,           \* processes still running whose worker thread has ended
    last               \* history: what the control thread's last handler did

vars == << workers, queue, current_worker, progress_visible, cancel_enabled,
           stored, mpc, stopw, requests, written,
           orphans, last >>

Slots == 1..MaxSlots

\* a slot holding no worker object
Free ==
    [ task |-> "none", cb |-> 0, pc |-> "free", running |-> FALSE, proc |-> "none",
      streams |-> "open", pipe |-> << >>, lines |-> << >>, stopped |-> FALSE,
      errbuf |-> 0, errleft |-> 0 ]

\* CommandWorker.__init__ / GenericWorker.__init__, then QThread.start()
NewWorker(task, callback_arg) ==
    [ task     |-> task,
      cb       |-> callback_arg,
      pc       |-> "start",      \* run() not yet past Popen
      running  |-> TRUE,         \* self._running
      proc     |-> "none",       \* self.process: none, alive, or how it ended:
                                 \*   exited, terminated, killed
      streams  |-> "open",       \* write ends the process holds: open, outclosed, closed
      pipe     |-> << >>,        \* stdout lines written and not yet read
      lines    |-> << >>,        \* stdout_lines
      stopped  |-> FALSE,        \* history: stop() was called on it
      errbuf   |-> 0,            \* chunks written to stderr and not yet read
      errleft  |-> 0 ]           \* chunks the process writes to stderr before it
                                 \*   does anything else (0: stderr is not followed)

\* self.process.poll() is not None
Dead(wk) == wk.proc \in {"exited", "terminated", "killed"}

\* self.process.returncode as wait() can return it
ReturnCodes(wk) ==
    CASE wk.proc = "terminated" -> { 0 - SIGTERM }
      [] wk.proc = "killed"     -> { 0 - SIGKILL }
      [] OTHER                  -> ExitCodes

\* QThread.isRunning()
isRunning(wk) == wk.pc \notin {"free", "exited"}

\* a step's stored lists: parser is the parser applied, lines what it was applied to;
\* EmptyData is the empty list every store starts with
EmptyData == [ parser |-> "none", lines |-> << >> ]

\* parser_func(stdout_lines); each of the three parsers returns empty lists for no lines
Parsed(task, lines) ==
    IF lines = << >> THEN EmptyData ELSE [ parser |-> task, lines |-> lines ]

\* callback_arg of a CommandWorker: None
NoArg == 0 - 1

\* a signal emitted with None in place of self.callback_arg
Signal_without_arg(wk, w, sig, kind, msg, payload) ==
    [ w |-> w, task |-> wk.task, sig |-> sig, kind |-> kind, msg |-> msg,
      arg |-> NoArg, payload |-> payload, afterStop |-> wk.stopped, missing |-> "" ]

\* A queued signal with the slots connected to it (task names them); kind,
\* afterStop and missing are history: which emit of run() it was, whether stop()
\* had been called on the worker by then, and which of the tools `which` and
\* `pkexec` the CommandWorker did not find in PATH ("" when it did not look).
Signal(wk, w, sig, kind, msg, payload) ==
    [ w |-> w, task |-> wk.task, sig |-> sig, kind |-> kind, msg |-> msg,
      arg |-> wk.cb, payload |-> payload, afterStop |-> wk.stopped, missing |-> "" ]

Terminal(s) == s.sig \in {"finished", "error"}

\* the worker's fields once run() has emitted its terminal signal and returns
Returned(wk) ==
    [wk EXCEPT !.pc = "done", !.lines = << >>, !.pipe = << >>, !.streams = "open",
               !.errbuf = 0, !.errleft = 0,
               !.proc = IF Dead(wk) THEN "exited" ELSE @]

\* A worker object goes when nothing refers to it: its thread has ended, no signal
\* of it is queued and the window does not hold it.
Collectable(ws, q, cw, w) ==
    /\ ws[w].pc = "exited"
    /\ cw # w
    /\ \A i \in 1..Len(q) : q[i].w # w

Collect(ws, q, cw) ==
    [ w \in Slots |-> IF Collectable(ws, q, cw, w) THEN Free ELSE ws[w] ]

\* self.signals.error.emit(msg, self.callback_arg), then return
EmitError(w, kind, msg) ==
    /\ queue' = Append(queue, Signal(workers[w], w, "error", kind, msg, EmptyData))
    /\ workers' = [workers EXCEPT ![w] = Returned(@)]

\* the same for a CommandWorker that found `which`, `pkexec` or both missing
EmitLaunchError(w, kind, msg, missing) ==
    /\ queue' = Append(queue, [Signal(workers[w], w, "error", kind, msg, EmptyData)
                                  EXCEPT !.missing = missing])
    /\ workers' = [workers EXCEPT ![w] = Returned(@)]

\* no handler has just run
Quiet ==
    [ op |-> "none", w |-> 0, task |-> "none", sig |-> "", kind |-> "", msg |-> "",
      afterStop |-> FALSE, route |-> "none", classified |-> "none", started |-> 0,
      busy |-> FALSE, dialog |-> FALSE, logged |-> "none", complete |-> FALSE,
      cw0 |-> 0, arg |-> NoArg, calls |-> << >> ]

\* what a step of a worker thread or of a process leaves alone; last describes a
\* handler only until another thread moves
ThreadFrame ==
    /\ last' = Quiet
    /\ UNCHANGED << current_worker, progress_visible, cancel_enabled, stored, mpc, stopw,
                    requests >>

WorkerFrame == ThreadFrame /\ UNCHANGED << written, orphans >>

(* ----------------------- the external process ------------------------- *)
\* the process writes one line to stdout
ProcWrite(w) ==
    /\ workers[w].proc = "alive"
    /\ workers[w].pc = "read"
    /\ workers[w].streams = "open"
    /\ written < MaxLines
    /\ \E line \in StdoutLines :
         workers' = [workers EXCEPT ![w].pipe = Append(@, line)]
    /\ written' = written + 1
    /\ UNCHANGED << queue, orphans >>
    /\ ThreadFrame

\* the process closes stdout, later stderr, and keeps running
ProcClose(w) ==
    /\ workers[w].proc = "alive"
    /\ workers[w].pc \in {"read", "stderr"}
    /\ workers[w].streams # "closed"
    /\ workers' = [workers EXCEPT ![w].streams =
                      IF @ = "open" THEN "outclosed" ELSE "closed"]
    /\ UNCHANGED queue
    /\ WorkerFrame

\* the process exits by itself
ProcExit(w) ==
    /\ workers[w].proc = "alive"
    /\ workers' = [workers EXCEPT ![w].proc = "exited"]
    /\ UNCHANGED queue
    /\ WorkerFrame

\* the process writes one chunk to stderr; the write blocks while the pipe is full
ProcWriteErr(w) ==
    /\ workers[w].proc = "alive"
    /\ workers[w].pc \in {"read", "stderr"}
    /\ workers[w].errleft > 0
    /\ workers[w].errbuf < PipeCapacity
    /\ workers' = [workers EXCEPT ![w].errbuf = @ + 1, ![w].errleft = @ - 1]
    /\ UNCHANGED queue
    /\ WorkerFrame

\* a process nobody waits for any more exits
OrphanExit ==
    /\ orphans > 0
    /\ orphans' = orphans - 1
    /\ UNCHANGED << workers, queue, written >>
    /\ ThreadFrame

(* ------------------ CommandWorker.run / GenericWorker.run ------------- *)
\* up to and including subprocess.Popen (CommandWorker: the pkexec check first)
WorkerSpawn(w) ==
    /\ workers[w].pc = "start"
    /\ \/ \* `which pkexec` ran and returned non-zero
          /\ ~IsGeneric(workers[w].task)
          /\ EmitLaunchError(w, "pkexec", MsgPkexecMissing, "pkexec")
       \/ \* subprocess.run(['which', 'pkexec']) raised FileNotFoundError
          /\ ~IsGeneric(workers[w].task)
          /\ \E missing \in {"which", "which,pkexec"} :
                 EmitLaunchError(w, "launch", MsgNotFound(workers[w].task), missing)
       \/ \* Popen raised FileNotFoundError
          /\ IsGeneric(workers[w].task)
          /\ EmitError(w, "launch", MsgNotFound(workers[w].task))
       \/ EmitError(w, "unexpected", MsgUnexpected(workers[w].task))
       \/ /\ workers' = [workers EXCEPT ![w].pc = "read", ![w].proc = "alive"]
          /\ UNCHANGED queue
    /\ WorkerFrame

\* readline() has nothing to return yet
ReadBlocked(wk) == wk.pipe = << >> /\ wk.proc = "alive" /\ wk.streams = "open"

\* one turn of `for line in iter(self.process.stdout.readline, '')`, and, when the
\* loop ends, stdout.close() and the `if not self._running` test after it
WorkerRead(w) ==
    /\ workers[w].pc = "read"
    /\ ~ReadBlocked(workers[w])
    /\ LET wk == workers[w]
           gotLine == wk.pipe # << >>
           taken == IF gotLine THEN [wk EXCEPT !.pipe = Tail(@)] ELSE wk
       IN  IF gotLine /\ wk.running
           THEN \* the loop body: progress.emit / stdout_lines.append
                /\ workers' = [workers EXCEPT ![w] =
                                  [taken EXCEPT !.lines = Append(@, Strip(Head(wk.pipe)))]]
                /\ queue' = IF IsGeneric(wk.task) THEN queue
                            ELSE Append(queue, Signal(wk, w, "progress", "line",
                                                      Strip(Head(wk.pipe)), EmptyData))
           ELSE \* break, or end of file
                IF ~wk.running
                THEN /\ queue' = Append(queue, Signal(wk, w, "error", "cancelled",
                                                      MsgCancelled, EmptyData))
                     /\ workers' = [workers EXCEPT ![w] = Returned(taken)]
                ELSE /\ workers' = [workers EXCEPT ![w] = [taken EXCEPT !.pc = "stderr"]]
                     /\ UNCHANGED queue
    /\ WorkerFrame

\* self.process.stderr.read() returns at end of file while the process still runs,
\* and self.process.wait(timeout=COMMAND_TIMEOUT) begins
WorkerStderr(w) ==
    /\ workers[w].pc = "stderr"
    /\ workers[w].proc = "alive"
    /\ workers[w].streams = "closed"
    /\ workers' = [workers EXCEPT ![w].pc = "wait"]
    /\ UNCHANGED queue
    /\ WorkerFrame

\* self.process.stderr.read(), reached after the stdout loop, takes what the
\* pipe holds and goes on reading until end of file
WorkerDrain(w) ==
    /\ workers[w].pc = "stderr"
    /\ workers[w].errbuf > 0
    /\ workers' = [workers EXCEPT ![w].errbuf = 0]
    /\ UNCHANGED queue
    /\ WorkerFrame

\* WorkerWait without the return after the parser's error: result and finished
\* follow the error
WorkerWait_no_return(w) ==
    /\ workers[w].pc \in {"stderr", "wait"}
    /\ Dead(workers[w])
    /\ LET wk == workers[w] IN
       \E code \in ReturnCodes(wk) :
       IF code # 0
       THEN \E err \in StderrTexts(wk.task) :
                EmitError(w, "exitfail", MsgFailed(wk.task, code, err))
       ELSE \/ /\ IsGeneric(wk.task)
               /\ queue' = queue \o
                     << Signal(wk, w, "error", "parse", MsgParse(wk.lines), EmptyData),
                        Signal(wk, w, "result", "result", "", Parsed(wk.task, wk.lines)),
                        Signal(wk, w, "finished", "finished", "", EmptyData) >>
               /\ workers' = [workers EXCEPT ![w] = Returned(@)]
            \/ /\ queue' = IF IsGeneric(wk.task)
                           THEN queue \o
                                << Signal(wk, w, "result", "result", "",
                                          Parsed(wk.task, wk.lines)),
                                   Signal(wk, w, "finished", "finished", "", EmptyData) >>
                           ELSE Append(queue,
                                    Signal(wk, w, "finished", "finished", "", EmptyData))
               /\ workers' = [workers EXCEPT ![w] = Returned(@)]
    /\ WorkerFrame

\* WorkerWait emitting finished before result
WorkerWait_finished_first(w) ==
    /\ workers[w].pc \in {"stderr", "wait"}
    /\ Dead(workers[w])
    /\ LET wk == workers[w] IN
       \E code \in ReturnCodes(wk) :
       IF code # 0
       THEN \E err \in StderrTexts(wk.task) :
                EmitError(w, "exitfail", MsgFailed(wk.task, code, err))
       ELSE \/ /\ IsGeneric(wk.task)
               /\ EmitError(w, "parse", MsgParse(wk.lines))
            \/ /\ queue' = IF IsGeneric(wk.task)
                           THEN queue \o
                                << Signal(wk, w, "finished", "finished", "", EmptyData),
                                   Signal(wk, w, "result", "result", "",
                                          Parsed(wk.task, wk.lines)) >>
                           ELSE Append(queue,
                                    Signal(wk, w, "finished", "finished", "", EmptyData))
               /\ workers' = [workers EXCEPT ![w] = Returned(@)]
    /\ WorkerFrame

\* The process has ended: stderr.read() (if not yet done) and wait() return, then
\* the returncode test, the parser and the terminal emit
WorkerWait(w) ==
    /\ workers[w].pc \in {"stderr", "wait"}
    /\ Dead(workers[w])
    /\ LET wk == workers[w] IN
       \E code \in ReturnCodes(wk) :
       IF code # 0
       THEN \E err \in StderrTexts(wk.task) :
                EmitError(w, "exitfail", MsgFailed(wk.task, code, err))
       ELSE \/ /\ IsGeneric(wk.task)
               /\ EmitError(w, "parse", MsgParse(wk.lines))
            \/ /\ queue' = IF IsGeneric(wk.task)
                           THEN queue \o
                                << Signal(wk, w, "result", "result", "",
                                          Parsed(wk.task, wk.lines)),
                                   Signal(wk, w, "finished", "finished", "", EmptyData) >>
                           ELSE Append(queue,
                                    Signal(wk, w, "finished", "finished", "", EmptyData))
               /\ workers' = [workers EXCEPT ![w] = Returned(@)]
    /\ WorkerFrame

\* wait() raises TimeoutExpired: the process is still running after COMMAND_TIMEOUT;
\* self.process.kill() and the timeout error
WorkerTimeout(w) ==
    /\ workers[w].pc = "wait"
    /\ workers[w].proc = "alive"
    /\ queue' = Append(queue, Signal(workers[w], w, "error", "timeout", MsgTimeout, EmptyData))
    /\ workers' = [workers EXCEPT ![w] = Returned([@ EXCEPT !.proc = "killed"])]
    /\ WorkerFrame

\* `finally: self._running = False`, run() returns and the thread ends.  stop() is
\* only called on a worker that isRunning(), so a process still alive now is out of
\* the program's reach.
WorkerExit(w) ==
    /\ workers[w].pc = "done"
    /\ workers' = Collect([workers EXCEPT ![w] =
                              [@ EXCEPT !.pc = "exited", !.running = FALSE, !.proc = "none"]],
                          queue, current_worker)
    /\ orphans' = IF workers[w].proc = "alive" THEN orphans + 1 ELSE orphans
    /\ UNCHANGED << queue, written >>
    /\ ThreadFrame

(* ------------------- GentooPackageManagerGUI handlers ----------------- *)
\* The window's fields as one value, so that a handler is a function of it; the
\* fields from route on are history of the handler being run.
GUI ==
    [ workers |-> workers, cw |-> current_worker, prog |-> progress_visible,
      cancel |-> cancel_enabled, stored |-> stored,
      pending |-> queue,      \* the signals queued behind the one being handled
      route |-> "none",       \* _generic_finished / _generic_error branch taken
      classified |-> "none",  \* on_updates_error branch taken
      started |-> 0,          \* the slot of the worker the handler constructed
      busy |-> FALSE,         \* a request was refused as busy
      dialog |-> FALSE,       \* show_error was called
      logged |-> "none",      \* what was appended to the output console
      complete |-> FALSE,     \* LOAD_STEP_COMPLETE was reached
      calls |-> << >>,        \* result, finish and error handlers called, in order
      full |-> FALSE ]        \* MaxSlots would be exceeded

\* `self.current_worker and self.current_worker.isRunning()`
Busy(g) == g.cw # 0 /\ isRunning(g.workers[g.cw])

FreeSlots(ws) == { w \in Slots : ws[w].pc = "free" }

\* self.current_worker = Worker(...); connect; self.current_worker.start()
\* (the object self.current_worker held is dropped by the assignment)
StartWorker(g, task, callback_arg) ==
    LET ws == Collect(g.workers, g.pending, 0) IN
    IF FreeSlots(ws) = {} THEN [g EXCEPT !.full = TRUE]
    ELSE LET w == CHOOSE x \in FreeSlots(ws) : \A y \in FreeSlots(ws) : x <= y
         IN  [g EXCEPT !.workers = [ws EXCEPT ![w] = NewWorker(task, callback_arg)],
                       !.cw = w, !.started = w]

no_updates_phrases ==
    << "There are no packages to update",
       "Nothing to merge",
       "emerge: there are no ebuilds to satisfy",
       "Exiting." >>

\* is_no_updates with a permission pattern among the phrases
is_no_updates_permission(error_msg) ==
    \/ \E i \in 1..Len(no_updates_phrases) : Contains(error_msg, no_updates_phrases[i])
    \/ Contains(error_msg, "Permission denied")

is_no_updates(error_msg) ==
    \E i \in 1..Len(no_updates_phrases) : Contains(error_msg, no_updates_phrases[i])

is_permission_error(error_msg) ==
    Contains(error_msg, "Permission denied") \/ Contains(error_msg, "are you root?")

\* on_installed_result / on_load_available_result / on_updates_result
on_result(g, task, payload) ==
    [g EXCEPT !.stored[task] = payload, !.calls = Append(@, "on_result")]

RECURSIVE start_next_load_step(_, _)
RECURSIVE run_generic_task(_, _, _)
RECURSIVE generic_error(_, _, _)
RECURSIVE on_error_callback(_, _, _, _)

start_next_load_step(g, step) ==
    CASE step = LOAD_STEP_INSTALLED -> run_generic_task(g, "installed", LOAD_STEP_AVAILABLE)
      [] step = LOAD_STEP_AVAILABLE -> run_generic_task(g, "available", LOAD_STEP_UPDATES)
      [] step = LOAD_STEP_UPDATES   -> run_generic_task(g, "updates", LOAD_STEP_COMPLETE)
      [] step = LOAD_STEP_COMPLETE  ->
             [g EXCEPT !.prog = FALSE, !.cancel = FALSE, !.cw = 0, !.complete = TRUE]
      [] OTHER -> g

run_generic_task(g, task, callback_arg) ==
    IF Busy(g)
    THEN on_error_callback([g EXCEPT !.busy = TRUE], task, MsgConflict, callback_arg)
    ELSE StartWorker([g EXCEPT !.prog = TRUE, !.cancel = TRUE], task, callback_arg)

\* _generic_finished starting the step after the one it was given
generic_finished_skips(g, callback_arg) ==
    start_next_load_step([g EXCEPT !.cw = 0, !.route = "finished"], callback_arg + 1)

generic_finished(g, callback_arg) ==
    start_next_load_step(
        [g EXCEPT !.cw = 0, !.route = "finished",
                  !.calls = Append(@, "_generic_finished")], callback_arg)

\* _generic_error returning after the log, without the next step
generic_error_stops(g, error_msg, callback_arg) ==
    IF Contains(error_msg, "Operation Cancelled")
    THEN [g EXCEPT !.logged = "cancelled", !.prog = FALSE, !.cancel = FALSE,
                   !.cw = 0, !.route = "cancel"]
    ELSE IF Contains(error_msg, "Command not found")
    THEN [g EXCEPT !.logged = "error", !.dialog = TRUE, !.prog = FALSE,
                   !.cancel = FALSE, !.cw = 0, !.route = "fatal"]
    ELSE [g EXCEPT !.logged = "error", !.cw = 0, !.route = "continue"]

\* _generic_error without the test for a cancellation
generic_error_no_cancel(g, error_msg, callback_arg) ==
    IF Contains(error_msg, "Command not found")
    THEN [g EXCEPT !.logged = "error", !.dialog = TRUE, !.prog = FALSE,
                   !.cancel = FALSE, !.cw = 0, !.route = "fatal"]
    ELSE start_next_load_step(
             [g EXCEPT !.logged = "error", !.cw = 0, !.route = "continue"], callback_arg)

generic_error(g, error_msg, callback_arg) ==
    LET g0 == [g EXCEPT !.calls = Append(@, "_generic_error")] IN
    IF Contains(error_msg, "Operation Cancelled")
    THEN [g0 EXCEPT !.logged = "cancelled", !.prog = FALSE, !.cancel = FALSE,
                    !.cw = 0, !.route = "cancel"]
    ELSE IF Contains(error_msg, "Command not found")
    THEN [g0 EXCEPT !.logged = "error", !.dialog = TRUE, !.prog = FALSE,
                    !.cancel = FALSE, !.cw = 0, !.route = "fatal"]
    ELSE start_next_load_step(
             [g0 EXCEPT !.logged = "error", !.cw = 0, !.route = "continue"], callback_arg)

\* on_updates_error testing the permission patterns first
on_updates_error_permission_first(g, error_msg, cb_arg) ==
    IF is_permission_error(error_msg)
    THEN generic_error([g EXCEPT !.classified = "permission"], error_msg, cb_arg)
    ELSE IF is_no_updates(error_msg)
    THEN generic_finished(
             on_result([g EXCEPT !.classified = "no_updates"], "updates", EmptyData), cb_arg)
    ELSE generic_error([g EXCEPT !.classified = "error"], error_msg, cb_arg)

\* on_updates_error storing the empty result for a real error too
on_updates_error_stores_empty(g, error_msg, cb_arg) ==
    IF is_no_updates(error_msg)
    THEN generic_finished(
             on_result([g EXCEPT !.classified = "no_updates"], "updates", EmptyData), cb_arg)
    ELSE IF is_permission_error(error_msg)
    THEN generic_error([g EXCEPT !.classified = "permission"], error_msg, cb_arg)
    ELSE generic_error(on_result([g EXCEPT !.classified = "error"], "updates", EmptyData),
                       error_msg, cb_arg)

\* on_updates_error with `if` in place of `elif` for the permission patterns
on_updates_error_two_ifs(g, error_msg, cb_arg) ==
    LET g1 == IF is_no_updates(error_msg)
              THEN generic_finished(
                       on_result([g EXCEPT !.classified = "no_updates"], "updates",
                                 EmptyData), cb_arg)
              ELSE g
    IN  IF is_permission_error(error_msg)
        THEN generic_error([g1 EXCEPT !.classified = "permission"], error_msg, cb_arg)
        ELSE IF is_no_updates(error_msg) THEN g1
        ELSE generic_error([g1 EXCEPT !.classified = "error"], error_msg, cb_arg)

\* on_updates_error storing the empty result without calling _generic_finished
on_updates_error_no_finish(g, error_msg, cb_arg) ==
    IF is_no_updates(error_msg)
    THEN on_result([g EXCEPT !.classified = "no_updates"], "updates", EmptyData)
    ELSE IF is_permission_error(error_msg)
    THEN generic_error([g EXCEPT !.classified = "permission"], error_msg, cb_arg)
    ELSE generic_error([g EXCEPT !.classified = "error"], error_msg, cb_arg)

on_updates_error(g, error_msg, cb_arg) ==
    IF is_no_updates(error_msg)
    THEN generic_finished(
             on_result([g EXCEPT !.classified = "no_updates"], "updates", EmptyData), cb_arg)
    ELSE IF is_permission_error(error_msg)
    THEN generic_error([g EXCEPT !.classified = "permission"], error_msg, cb_arg)
    ELSE generic_error([g EXCEPT !.classified = "error"], error_msg, cb_arg)

\* on_installed_error, on_load_available_error, on_updates_error
on_error_callback(g, task, error_msg, cb_arg) ==
    IF task = "updates" THEN on_updates_error(g, error_msg, cb_arg)
    ELSE generic_error(g, error_msg, cb_arg)

refresh_all(g) ==
    IF Busy(g) THEN [g EXCEPT !.busy = TRUE, !.dialog = TRUE]
    ELSE start_next_load_step(g, LOAD_STEP_INSTALLED)

run_emerge_command(g, task) ==
    IF Busy(g) THEN [g EXCEPT !.busy = TRUE, !.dialog = TRUE]
    ELSE StartWorker([g EXCEPT !.prog = TRUE, !.cancel = TRUE, !.logged = "executing"],
                     task, NoArg)

\* _command_action_finished with _action_requires_refresh as the callback of
\* run_sync too
command_action_finished_refreshes_all(g, task) ==
    refresh_all([g EXCEPT !.prog = FALSE, !.cancel = FALSE, !.logged = "success",
                          !.cw = 0, !.route = "finished"])

\* _command_action_finished calling its callback without clearing current_worker
command_action_finished_keeps_worker(g, task) ==
    LET g1 == [g EXCEPT !.prog = FALSE, !.cancel = FALSE, !.logged = "success",
                        !.route = "finished"]
    IN  IF task = "sync" THEN run_generic_task(g1, "updates", LOAD_STEP_COMPLETE)
        ELSE refresh_all(g1)

\* _command_action_finished with its callback: _sync_finished after run_sync,
\* _action_requires_refresh after install, uninstall and update
command_action_finished(g, task) ==
    LET g1 == [g EXCEPT !.prog = FALSE, !.cancel = FALSE, !.logged = "success",
                        !.cw = 0, !.route = "finished"]
    IN  IF task = "sync" THEN run_generic_task(g1, "updates", LOAD_STEP_COMPLETE)
        ELSE refresh_all(g1)

\* _command_action_error; every caller passes on_error_callback=None
command_action_error(g, error_msg) ==
    IF Contains(error_msg, "Operation Cancelled")
    THEN [g EXCEPT !.prog = FALSE, !.cancel = FALSE, !.logged = "cancelled",
                   !.cw = 0, !.route = "cancel"]
    ELSE [g EXCEPT !.prog = FALSE, !.cancel = FALSE, !.logged = "error",
                   !.dialog = TRUE, !.cw = 0, !.route = "error"]

\* the slot connected to signal s
Handle(g, s) ==
    CASE s.sig = "progress" -> [g EXCEPT !.logged = "line"]
      [] s.sig = "result"   -> on_result(g, s.task, s.payload)
      [] s.sig = "finished" ->
             IF IsGeneric(s.task) THEN generic_finished(g, s.arg)
             ELSE command_action_finished(g, s.task)
      [] OTHER ->
             IF IsGeneric(s.task) THEN on_error_callback(g, s.task, s.msg, s.arg)
             ELSE command_action_error(g, s.msg)

(* ----------------------- control thread actions ----------------------- *)
Record(op, s, g) ==
    [ op |-> op, w |-> s.w, task |-> s.task, sig |-> s.sig, kind |-> s.kind,
      msg |-> s.msg, afterStop |-> s.afterStop,
      route |-> g.route, classified |-> g.classified, started |-> g.started,
      busy |-> g.busy, dialog |-> g.dialog, logged |-> g.logged,
      complete |-> g.complete, cw0 |-> current_worker, arg |-> s.arg,
      calls |-> g.calls ]

\* a request of the user stands where a signal would
Request == [ w |-> 0, task |-> "none", sig |-> "", kind |-> "", msg |-> "",
             afterStop |-> FALSE, arg |-> NoArg, missing |-> "" ]

\* the window's fields after a handler that left them as g, with q still queued
Commit(g, q) ==
    /\ ~g.full
    /\ workers' = Collect(g.workers, q, g.cw)
    /\ current_worker' = g.cw
    /\ progress_visible' = g.prog
    /\ cancel_enabled' = g.cancel
    /\ stored' = g.stored

\* the event loop delivering the newest queued signal first
Deliver_newest_first ==
    /\ mpc = "idle"
    /\ queue # << >>
    /\ LET s == queue[Len(queue)]
           rest == SubSeq(queue, 1, Len(queue) - 1)
           g == Handle([GUI EXCEPT !.pending = rest], s)
       IN  /\ Commit(g, rest)
           /\ last' = Record("deliver", s, g)
           /\ queue' = rest
    /\ UNCHANGED << mpc, stopw, requests, written, orphans >>

\* the event loop delivers the oldest queued signal to its slot
Deliver ==
    /\ mpc = "idle"
    /\ queue # << >>
    /\ LET s == Head(queue)
           g == Handle([GUI EXCEPT !.pending = Tail(queue)], s)
       IN  /\ Commit(g, Tail(queue))
           /\ last' = Record("deliver", s, g)
    /\ queue' = Tail(queue)
    /\ UNCHANGED << mpc, stopw, requests, written, orphans >>

\* the Refresh Lists button
RefreshAll ==
    /\ mpc = "idle"
    /\ requests < MaxRequests
    /\ LET g == refresh_all(GUI)
       IN  /\ Commit(g, queue)
           /\ last' = IF g.busy THEN last ELSE Record("refresh_all", Request, g)
           /\ requests' = IF g.busy THEN requests ELSE requests + 1
    /\ UNCHANGED << queue, mpc, stopw, written, orphans >>

\* run_sync ("sync") and _install_packages, uninstall_selected, _perform_update
\* ("action"), confirmed by the user
RunEmerge(task) ==
    /\ mpc = "idle"
    /\ requests < MaxRequests
    /\ LET g == run_emerge_command(GUI, task)
       IN  /\ Commit(g, queue)
           /\ last' = IF g.busy THEN last ELSE Record("run_emerge_command", Request, g)
           /\ requests' = IF g.busy THEN requests ELSE requests + 1
    /\ UNCHANGED << queue, mpc, stopw, written, orphans >>

\* the Cancel Operation button: cancel_operation up to the first statement of stop()
CancelOperation ==
    /\ mpc = "idle"
    /\ requests < MaxRequests
    /\ cancel_enabled
    /\ IF Busy(GUI)
       THEN /\ workers' = [workers EXCEPT ![current_worker].running = FALSE,
                                          ![current_worker].stopped = TRUE]
            /\ mpc' = "stop_poll"
            /\ stopw' = current_worker
            /\ requests' = requests + 1
            /\ last' = Record("cancel_operation", Request, GUI)
       ELSE UNCHANGED << workers, mpc, stopw, requests, last >>
    /\ UNCHANGED << queue, current_worker, progress_visible, cancel_enabled, stored,
                    written, orphans >>

\* stop() emits progress itself; on the control thread the connected slot
\* (_command_progress, CommandWorker only) runs at once
StopLog(w) ==
    IF IsGeneric(workers[w].task) THEN Quiet
    ELSE [Quiet EXCEPT !.op = "stop", !.w = w, !.logged = "line"]

\* stop(): `if self.process and self.process.poll() is None`, then terminate()
StopPoll ==
    /\ mpc = "stop_poll"
    /\ IF workers[stopw].proc = "alive"
       THEN /\ \E dies \in BOOLEAN :
                 workers' = IF dies
                            THEN [workers EXCEPT ![stopw].proc = "terminated"]
                            ELSE workers
            /\ mpc' = "stop_wait"
            /\ UNCHANGED << cancel_enabled, stopw >>
       ELSE /\ cancel_enabled' = FALSE
            /\ mpc' = "idle"
            /\ stopw' = 0
            /\ UNCHANGED workers
    /\ last' = IF workers[stopw].proc = "alive" THEN StopLog(stopw) ELSE Quiet
    /\ UNCHANGED << queue, current_worker, progress_visible, stored, requests, written,
                    orphans >>

\* stop() with process.wait() without a timeout: it returns when the process ends
StopWait_no_timeout ==
    /\ mpc = "stop_wait"
    /\ workers[stopw].proc # "alive"
    /\ cancel_enabled' = FALSE
    /\ mpc' = "idle"
    /\ stopw' = 0
    /\ last' = StopLog(stopw)
    /\ UNCHANGED << workers, queue, current_worker, progress_visible, stored, requests,
                    written, orphans >>

\* stop(): process.wait(timeout=2) returns or raises and kill() follows; then
\* cancel_operation disables the button
StopWait ==
    /\ mpc = "stop_wait"
    /\ workers' = IF workers[stopw].proc = "alive"
                  THEN [workers EXCEPT ![stopw].proc = "killed"]
                  ELSE workers
    /\ cancel_enabled' = FALSE
    /\ mpc' = "idle"
    /\ stopw' = 0
    /\ last' = StopLog(stopw)
    /\ UNCHANGED << queue, current_worker, progress_visible, stored, requests, written,
                    orphans >>

\* _start_next_load_step called directly, whatever the current worker does (no
\* button does this: each caller in the window clears current_worker first)
LoadStepRequest(step) ==
    /\ mpc = "idle"
    /\ requests < MaxRequests
    /\ LET g == start_next_load_step(GUI, step)
       IN  /\ Commit(g, queue)
           /\ last' = Record("load_step", Request, g)
    /\ requests' = requests + 1
    /\ UNCHANGED << queue, mpc, stopw, written, orphans >>

(* --------------------------- specifications --------------------------- *)
\* __init__: empty stores, then _start_next_load_step(LOAD_STEP_INSTALLED)
Init ==
    /\ workers = [ w \in Slots |->
                     IF w = 1 THEN NewWorker("installed", LOAD_STEP_AVAILABLE) ELSE Free ]
    /\ queue = << >>
    /\ current_worker = 1
    /\ progress_visible = TRUE
    /\ cancel_enabled = TRUE
    /\ stored = [ t \in {"installed", "available", "updates"} |-> EmptyData ]
    /\ mpc = "idle"
    /\ stopw = 0
    /\ requests = 0
    /\ written = 0
    /\ orphans = 0
    /\ last = [Quiet EXCEPT !.op = "init", !.started = 1]

WorkerStep(w) ==
    \/ WorkerSpawn(w)
    \/ WorkerRead(w)
    \/ WorkerStderr(w)
    \/ WorkerWait(w)
    \/ WorkerTimeout(w)
    \/ WorkerExit(w)

ProcStep(w) ==
    \/ ProcWrite(w)
    \/ ProcClose(w)
    \/ ProcExit(w)

\* the load sequence started by __init__, with the Cancel Operation button
LoadNext ==
    \/ \E w \in Slots : WorkerStep(w)
    \/ \E w \in Slots : ProcStep(w)
    \/ OrphanExit
    \/ Deliver
    \/ CancelOperation
    \/ StopPoll
    \/ StopWait

LoadSpec == Init /\ [][LoadNext]_vars

\* the whole window: the other buttons too
Next ==
    \/ LoadNext
    \/ RefreshAll
    \/ \E task \in {"sync", "action"} : RunEmerge(task)

Spec == Init /\ [][Next]_vars

\* the load sequence with its functions called directly as well
ApiNext ==
    \/ LoadNext
    \/ \E step \in {LOAD_STEP_INSTALLED, LOAD_STEP_AVAILABLE, LOAD_STEP_UPDATES} :
           LoadStepRequest(step)

ApiSpec == Init /\ [][ApiNext]_vars

\* The window idle after a completed load, then run_emerge_command from one of the
\* buttons: run_sync ("sync"), or an install, uninstall or update ("action")
CommandInit ==
    /\ \E task \in {"sync", "action"} :
           workers = [ w \in Slots |-> IF w = 1 THEN NewWorker(task, NoArg) ELSE Free ]
    /\ queue = << >>
    /\ current_worker = 1
    /\ progress_visible = TRUE
    /\ cancel_enabled = TRUE
    /\ stored = [ t \in {"installed", "available", "updates"} |-> EmptyData ]
    /\ mpc = "idle"
    /\ stopw = 0
    /\ requests = 0
    /\ written = 0
    /\ orphans = 0
    /\ last = [Quiet EXCEPT !.op = "run_emerge_command", !.started = 1,
                            !.logged = "executing"]

\* an emerge command with its follow-up loads, and the Cancel Operation button
CommandSpec == CommandInit /\ [][LoadNext]_vars

\* run_sync: the window idle, then `emerge --sync` started
SyncInit == CommandInit /\ workers[1].task = "sync"

\* emerge --sync with what follows it, and the Cancel Operation button
SyncSpec == SyncInit /\ [][LoadNext]_vars

\* the step of _start_next_load_step that runs task
StepOf(task) ==
    CASE task = "installed" -> LOAD_STEP_INSTALLED
      [] task = "available" -> LOAD_STEP_AVAILABLE
      [] task = "updates"   -> LOAD_STEP_UPDATES
      [] OTHER              -> NoArg

\* the callback_arg the worker of task is constructed with
ConstructedWith(task) == IF IsGeneric(task) THEN StepOf(task) + 1 ELSE NoArg

\* the i-th stdout line of a command, stripped
OutputLine(i) == "pkg-" \o ToString(i) \o "-r1"

\* A load step whose command has written n lines, closed its streams and exited,
\* and whose worker has read them all: GenericWorker.run is at stderr.read()
ParseInit ==
    /\ \E task \in {"installed", "available", "updates"} : \E n \in 0..MaxOutput :
           /\ workers = [ w \in Slots |->
                  IF w = 1
                  THEN [NewWorker(task, ConstructedWith(task)) EXCEPT
                           !.pc = "stderr", !.proc = "exited", !.streams = "closed",
                           !.lines = [ i \in 1..n |-> OutputLine(i) ]]
                  ELSE Free ]
           /\ written = n
    /\ queue = << >>
    /\ current_worker = 1
    /\ progress_visible = TRUE
    /\ cancel_enabled = TRUE
    /\ stored = [ t \in {"installed", "available", "updates"} |-> EmptyData ]
    /\ mpc = "idle"
    /\ stopw = 0
    /\ requests = 0
    /\ orphans = 0
    /\ last = Quiet

\* the rest of the load sequence from there
ParseSpec == ParseInit /\ [][LoadNext]_vars

(* ------------------------- parse_eix_output --------------------------- *)
\* the characters of the sample lines in the order of their code points
Alphabet == " -./0123456789abcdefghijklmnopqrstuvwxyz"

\* ord(c), up to an order-preserving renumbering
Ord(c) == CHOOSE i \in 1..Len(Alphabet) : SubSeq(Alphabet, i, i) = c

\* Python's a < b on str
RECURSIVE StrLess(_, _)
StrLess(a, b) ==
    IF Len(b) = 0 THEN FALSE
    ELSE IF Len(a) = 0 THEN TRUE
    ELSE IF SubSeq(a, 1, 1) = SubSeq(b, 1, 1)
    THEN StrLess(SubSeq(a, 2, Len(a)), SubSeq(b, 2, Len(b)))
    ELSE Ord(SubSeq(a, 1, 1)) < Ord(SubSeq(b, 1, 1))

\* sorted(list(packages)) of a set of str
RECURSIVE Sorted(_)
Sorted(packages) ==
    IF packages = {} THEN << >>
    ELSE LET least == CHOOSE x \in packages : \A y \in packages \ {x} : StrLess(x, y)
         IN  << least >> \o Sorted(packages \ {least})

\* parse_eix_output collecting the stripped lines in a list, not in a set
parse_eix_output_keeps_duplicates(lines) ==
    SortSeq(SelectSeq([ i \in 1..Len(lines) |-> Strip(lines[i]) ],
                      LAMBDA l : Contains(l, "/")),
            StrLess)

parse_eix_output(lines) ==
    Sorted({ Strip(lines[i]) :
                i \in { k \in 1..Len(lines) : lines[k] # "" /\ Contains(lines[k], "/") } })

\* lines as a caller can pass them: stripped or not, with and without '/',
\* empty, out of order
EixLines == { "", "eix", "app-misc/foo-1.0", "app-misc/bar-2.1", " app-misc/foo-1.0",
             "app-misc/bar-2.1\n" }

\* A list of lines about to be parsed; the free slot 1 holds it in `lines`
EixInit ==
    /\ \E n \in 0..MaxEix : \E lines \in [1..n -> EixLines] :
           workers = [ w \in Slots |-> IF w = 1 THEN [Free EXCEPT !.lines = lines]
                                      ELSE Free ]
    /\ queue = << >>
    /\ current_worker = 0
    /\ progress_visible = FALSE
    /\ cancel_enabled = FALSE
    /\ stored = [ t \in {"installed", "available", "updates"} |-> EmptyData ]
    /\ mpc = "idle"
    /\ stopw = 0
    /\ requests = 0
    /\ written = 0
    /\ orphans = 0
    /\ last = Quiet

\* parse_eix_output is applied to the list and on_load_available_result stores
\* what it returns
EixParse ==
    /\ last.op = "none"
    /\ stored' = [stored EXCEPT !["available"] =
                     [ parser |-> "available",
                       lines |-> parse_eix_output(workers[1].lines) ]]
    /\ last' = [Quiet EXCEPT !.op = "parse"]
    /\ UNCHANGED << workers, queue, current_worker, progress_visible, cancel_enabled,
                    mpc, stopw, requests, written, orphans >>

EixSpec == EixInit /\ [][EixParse]_vars

\* chunks a command writes to stderr: none, or up to one more than the pipe holds
ErrVolume == PipeCapacity + 1

\* __init__ as in Init, the command of the first step being one that writes n
\* chunks to stderr before anything else
PipeInit ==
    /\ \E n \in 0..ErrVolume :
           workers = [ w \in Slots |->
                         IF w = 1
                         THEN [NewWorker("installed", LOAD_STEP_AVAILABLE)
                                  EXCEPT !.errleft = n]
                         ELSE Free ]
    /\ queue = << >>
    /\ current_worker = 1
    /\ progress_visible = TRUE
    /\ cancel_enabled = TRUE
    /\ stored = [ t \in {"installed", "available", "updates"} |-> EmptyData ]
    /\ mpc = "idle"
    /\ stopw = 0
    /\ requests = 0
    /\ written = 0
    /\ orphans = 0
    /\ last = [Quiet EXCEPT !.op = "init", !.started = 1]

\* the load sequence with the stderr pipe followed: a process in a write to
\* stderr does nothing else until the write is done
PipeNext ==
    \/ \E w \in Slots : WorkerStep(w)
    \/ \E w \in Slots : WorkerDrain(w)
    \/ \E w \in Slots : workers[w].errleft = 0 /\ ProcStep(w)
    \/ \E w \in Slots : ProcWriteErr(w)
    \/ OrphanExit
    \/ Deliver
    \/ CancelOperation
    \/ StopPoll
    \/ StopWait

PipeSpec == PipeInit /\ [][PipeNext]_vars

\* Scheduling: a worker thread that can take a step takes it, and the event loop
\* of the control thread keeps running.  Nothing makes a process write, close a
\* stream or exit, and nothing makes the user press a button.
Fairness ==
    /\ \A w \in Slots : WF_vars(WorkerStep(w))
    /\ WF_vars(Deliver)
    /\ WF_vars(StopPoll)
    /\ WF_vars(StopWait)

FairSpec == Init /\ [][LoadNext]_vars /\ Fairness

(* ------------------------------- claims ------------------------------- *)
\* the worker threads that have not yet emitted their terminal signal
Executing == { w \in Slots : workers[w].pc \in {"start", "read", "stderr", "wait"} }

\* the external processes that are running
AliveProcesses == { w \in Slots : workers[w].proc = "alive" }

\* the control thread has just handled a terminal signal of a load step
HandledLoad(task) ==
    /\ last.op = "deliver"
    /\ last.task = task
    /\ last.sig \in {"finished", "error"}

\* the worker the last handler constructed is the current one and runs task
StartedStep(task, callback_arg) ==
    /\ last.started # 0
    /\ current_worker = last.started
    /\ workers[last.started].task = task
    /\ workers[last.started].cb = callback_arg
    /\ workers[last.started].pc = "start"

\* the window as LOAD_STEP_COMPLETE and the two aborts leave it
TornDown ==
    /\ last.started = 0
    /\ current_worker = 0
    /\ ~progress_visible
    /\ ~cancel_enabled

\* C1: single-flight.  At most one worker thread is executing a task and at most
\* one external process is alive, and a button pressed while the current
\* worker's terminal signal is still to be handled starts no worker.
C1_SingleFlight ==
    /\ Cardinality(Executing) <= 1
    /\ Cardinality(AliveProcesses) + orphans <= 1
    /\ (/\ last.op \in {"refresh_all", "run_emerge_command"}
        /\ last.cw0 # 0
        /\ \E i \in 1..Len(queue) : queue[i].w = last.cw0 /\ Terminal(queue[i]))
       => last.started = 0

\* C2: after cancel_operation has called stop() on a running worker, that worker
\* emits no finished signal and no process-failure or timeout error: its
\* terminal signal is an error other than those, "Operation Cancelled".
C2_OnlyCancelledAfterStop ==
    \A i \in 1..Len(queue) :
        (Terminal(queue[i]) /\ queue[i].afterStop)
        => (queue[i].sig = "error" /\ queue[i].kind \notin {"exitfail", "timeout"})

\* stop() has been called on worker w and the window still holds it
Cancelling(w) == workers[w].stopped /\ current_worker = w

\* C3: cancellation liveness.  Once stop() has been called on the current worker,
\* its terminal signal is eventually handled and current_worker moves off it.
C3_CancelEventuallyClears ==
    \A w \in Slots : Cancelling(w) ~> ~Cancelling(w)

\* worker w waits in readline() for a process that runs and keeps stdout open
AwaitingOutput(w) ==
    /\ workers[w].pc = "read"
    /\ workers[w].proc = "alive"
    /\ workers[w].streams = "open"

\* C4: timeout.  A worker does not wait for ever on a process that neither exits
\* nor closes its standard output: the timeout ends the wait.
C4_TimeoutEndsWait ==
    \A w \in Slots : AwaitingOutput(w) ~> ~AwaitingOutput(w)

\* C5: a load step whose executable is missing (the FileNotFoundError message of
\* GenericWorker.run) stops the sequence: the handler neither goes on to
\* _start_next_load_step nor starts a worker.
C5_LaunchFailureStops ==
    (\E task \in {"installed", "available", "updates"} :
         HandledLoad(task) /\ last.kind = "launch")
    => (last.route # "continue" /\ last.started = 0 /\ ~last.complete)

\* an ordinary failure: non-zero exit, parse error or timeout
OrdinaryFailure == last.sig = "error" /\ last.kind \in {"exitfail", "parse", "timeout"}

\* the load sequence step by step: the first step's success starts the second
\* step once, the second step's failure (as Failing describes it) is logged and
\* starts the third step once, the third step's success reaches
\* LOAD_STEP_COMPLETE
SequenceRuns(Failing) ==
    /\ (HandledLoad("installed") /\ last.sig = "finished")
       => StartedStep("available", LOAD_STEP_UPDATES)
    /\ (HandledLoad("available") /\ Failing)
       => (/\ last.logged = "error"
           /\ last.route = "continue"
           /\ StartedStep("updates", LOAD_STEP_COMPLETE))
    /\ (HandledLoad("updates") /\ last.sig = "finished")
       => (last.complete /\ TornDown)

\* C6 (as stated): first step succeeds, second fails with any ordinary failure,
\* third succeeds: all three run once in order, the failure is logged and
\* LOAD_STEP_COMPLETE is reached.
C6_Original == SequenceRuns(OrdinaryFailure)

\* C6 (amended): the same, for an ordinary failure whose message contains neither
\* "Operation Cancelled" nor "Command not found".
C6_SequenceContinues ==
    SequenceRuns(/\ OrdinaryFailure
                 /\ ~Contains(last.msg, "Operation Cancelled")
                 /\ ~Contains(last.msg, "Command not found"))

\* the second step has just failed with a timeout and the third step is starting
C6_Witness ==
    /\ HandledLoad("available")
    /\ last.kind = "timeout"
    /\ StartedStep("updates", LOAD_STEP_COMPLETE)
    /\ stored["installed"] # EmptyData

\* C7: a load step that resolves with an error text containing "Operation
\* Cancelled" aborts the sequence, at every step: no step is started,
\* current_worker is cleared, the progress bar hidden, the cancel button disabled.
C7_CancelAborts ==
    (/\ \E task \in {"installed", "available", "updates"} : HandledLoad(task)
     /\ last.sig = "error"
     /\ Contains(last.msg, "Operation Cancelled"))
    => (TornDown /\ last.route \in {"cancel", "finished"})

\* the UPDATES step has just resolved as cancelled
C7_Witness ==
    /\ HandledLoad("updates")
    /\ last.kind = "cancelled"
    /\ last.afterStop
    /\ TornDown

\* C8: a failure of the update check whose text contains one of the benign
\* phrases is treated as success with an empty payload: the update list is set
\* empty, _generic_finished runs, _generic_error does not.
C8_BenignIsSuccess ==
    (/\ HandledLoad("updates")
     /\ last.sig = "error"
     /\ \/ Contains(last.msg, "There are no packages to update")
        \/ Contains(last.msg, "Nothing to merge")
        \/ Contains(last.msg, "emerge: there are no ebuilds to satisfy")
        \/ Contains(last.msg, "Exiting."))
    => (/\ last.classified = "no_updates"
        /\ last.route = "finished"
        /\ last.logged = "none"
        /\ stored["updates"] = EmptyData)

\* a benign text that names a permission problem too has just been handled
C8_Witness ==
    /\ HandledLoad("updates")
    /\ Contains(last.msg, "Exiting.")
    /\ Contains(last.msg, "are you root?")
    /\ last.classified = "no_updates"

\* a failure text of the update check with a permission-denied pattern
PermissionText ==
    /\ HandledLoad("updates")
    /\ last.sig = "error"
    /\ Contains(last.msg, "Permission denied") \/ Contains(last.msg, "are you root?")

\* what C9 asks of the handler: routed to _generic_error, not rewritten
ReportedAsFailure ==
    /\ last.classified = "permission"
    /\ last.route \in {"cancel", "fatal", "continue"}
    /\ last.logged \in {"cancelled", "error"}

\* C9 (as stated): a failure text with a permission-denied pattern, whatever else
\* it contains, is reported as a failure and never rewritten to a success.
C9_Original == PermissionText => ReportedAsFailure

\* C9 (amended): a failure text with a permission-denied pattern and none of the
\* benign phrases is reported as a failure and never rewritten to a success.
C9_PermissionIsFailure ==
    (/\ PermissionText
     /\ ~Contains(last.msg, "There are no packages to update")
     /\ ~Contains(last.msg, "Nothing to merge")
     /\ ~Contains(last.msg, "emerge: there are no ebuilds to satisfy")
     /\ ~Contains(last.msg, "Exiting."))
    => ReportedAsFailure

\* a text with "Permission denied" and no benign phrase has just been handled
C9_Witness ==
    /\ PermissionText
    /\ Contains(last.msg, "Permission denied")
    /\ ~Contains(last.msg, "Exiting.")
    /\ last.classified = "permission"

ExecutingLoadSteps == { w \in Executing : IsGeneric(workers[w].task) }

\* C11: refresh_all while a load sequence is in progress (the current step's
\* terminal signal not yet handled, its thread ended or not) is rejected and
\* starts nothing, so no two load steps ever run at once.
C11_RefreshRejectedInSequence ==
    /\ (/\ last.op = "refresh_all"
        /\ \E i \in 1..Len(queue) :
              /\ queue[i].w = last.cw0
              /\ IsGeneric(queue[i].task)
              /\ Terminal(queue[i]))
       => (last.busy /\ last.started = 0)
    /\ Cardinality(ExecutingLoadSteps) <= 1

\* C12: the control thread handles a CommandWorker task's terminal signal only
\* after every line the worker emitted through progress: no progress signal of
\* the task is queued behind its terminal signal, and none is left queued once
\* the terminal signal has been handled.
C12_TerminalAfterLines ==
    /\ \A i \in 1..Len(queue) : \A j \in 1..Len(queue) :
          (/\ i < j
           /\ queue[i].w = queue[j].w
           /\ ~IsGeneric(queue[i].task)
           /\ Terminal(queue[i]))
          => queue[j].sig # "progress"
    /\ (last.op = "deliver" /\ ~IsGeneric(last.task) /\ last.sig \in {"finished", "error"})
       => \A i \in 1..Len(queue) : ~(queue[i].w = last.w /\ queue[i].sig = "progress")

\* a streamed line and the terminal signal of the same command are both queued
C12_Witness ==
    /\ Len(queue) = 2
    /\ queue[1].sig = "progress"
    /\ queue[2].sig = "finished"
    /\ queue[1].w = queue[2].w
    /\ ~IsGeneric(queue[2].task)

\* the terminal signals of worker w that are queued
QueuedTerminals(w) == { i \in 1..Len(queue) : queue[i].w = w /\ Terminal(queue[i]) }

\* C13: a worker emits at most one terminal signal, also when stop() races with
\* the process's exit: never two of finished and error are queued for it, and a
\* worker whose terminal signal is queued or has just been handled is past
\* every emit of run().
C13_OneTerminalEmission ==
    /\ \A w \in Slots : Cardinality(QueuedTerminals(w)) <= 1
    /\ \A w \in Executing : QueuedTerminals(w) = {}
    /\ (last.op = "deliver" /\ last.sig \in {"finished", "error"} /\ last.started # last.w)
       => (last.w \notin Executing /\ QueuedTerminals(last.w) = {})

\* stop() raced with the process's exit and the worker emitted finished
C13_Witness ==
    \E i \in 1..Len(queue) :
        /\ queue[i].sig = "finished"
        /\ queue[i].afterStop
        /\ QueuedTerminals(queue[i].w) = {i}

\* the last load step has just resolved with success or with a failure that
\* Failing describes
LastStepResolves(Failing) ==
    /\ HandledLoad("updates")
    /\ \/ last.sig = "finished"
       \/ last.sig = "error" /\ Failing

StartsLoadStep(w) ==
    /\ workers[w].pc # "start"
    /\ workers'[w].pc = "start"
    /\ IsGeneric(workers'[w].task)

\* a load sequence begins: refresh_all from its button or after an install,
\* uninstall or update starts INSTALLED, _sync_finished starts UPDATES
BeginsSequence(w) ==
    \/ /\ \/ last'.op = "refresh_all"
          \/ last'.op = "deliver" /\ last'.sig = "finished" /\ last'.task = "action"
       /\ workers'[w].task = "installed"
       /\ workers'[w].cb = LOAD_STEP_AVAILABLE
    \/ /\ last'.op = "deliver" /\ last'.sig = "finished" /\ last'.task = "sync"
       /\ workers'[w].task = "updates"
       /\ workers'[w].cb = LOAD_STEP_COMPLETE

\* C15: the load sequence advances INSTALLED, AVAILABLE, UPDATES, COMPLETE.  A
\* load step that does not begin a sequence is started only by the handler of
\* the terminal signal of the step before it; the step started is the
\* callback_arg that signal carries, and its own callback_arg is the step after
\* it.  LOAD_STEP_COMPLETE is reached only from the terminal signal of UPDATES
\* carrying LOAD_STEP_COMPLETE.
C15_SequenceInOrder ==
    /\ [](last.complete =>
             (HandledLoad("updates") /\ last.arg = LOAD_STEP_COMPLETE))
    /\ [][ \A w \in Slots :
              (StartsLoadStep(w) /\ ~BeginsSequence(w)) =>
                  /\ last'.op = "deliver"
                  /\ last'.sig \in {"finished", "error"}
                  /\ IsGeneric(last'.task)
                  /\ last'.arg = StepOf(last'.task) + 1
                  /\ StepOf(workers'[w].task) = last'.arg
                  /\ workers'[w].cb = last'.arg + 1
         ]_vars

\* the first step has just resolved and its handler started the second
C15_Witness ==
    /\ HandledLoad("installed")
    /\ last.arg = LOAD_STEP_AVAILABLE
    /\ StartedStep("available", LOAD_STEP_UPDATES)
    /\ requests = MaxRequests

\* C16: every terminal signal, finished or error, on every path of run(), carries
\* the callback_arg its worker was constructed with.
C16_TerminalCarriesArg ==
    /\ \A i \in 1..Len(queue) :
           Terminal(queue[i]) =>
               /\ queue[i].arg = workers[queue[i].w].cb
               /\ queue[i].arg = ConstructedWith(queue[i].task)
    /\ (last.op = "deliver" /\ last.sig \in {"finished", "error"})
       => last.arg = ConstructedWith(last.task)

\* the worker of refresh_updates, stopped, has emitted its cancellation carrying
\* LOAD_STEP_COMPLETE
C16_Witness ==
    \E i \in 1..Len(queue) :
        /\ queue[i].task = "updates"
        /\ queue[i].kind = "cancelled"
        /\ queue[i].arg = LOAD_STEP_COMPLETE

\* worker w emits the parser's error in this step
EmitsParseError(w) ==
    /\ workers[w].pc \in {"stderr", "wait"}
    /\ Len(queue') > Len(queue)
    /\ queue'[Len(queue) + 1].w = w
    /\ queue'[Len(queue) + 1].kind = "parse"

\* C17: when the command of a GenericWorker exits with code 0 and the parser
\* raises, the worker emits one error, "Error parsing command output", carrying
\* the first 10 output lines and none after them, and emits neither result nor
\* finished.
C17_ParseErrorOnly ==
    /\ [](\A i \in 1..Len(queue) :
             queue[i].kind = "parse" =>
                 /\ QueuedTerminals(queue[i].w) = {i}
                 /\ queue[i].w \notin Executing
                 /\ \A j \in 1..Len(queue) :
                        queue[j].w = queue[i].w => queue[j].sig = "error")
    /\ [][ \A w \in Slots :
              EmitsParseError(w) =>
                  LET s == queue'[Len(queue) + 1]
                      lines == workers[w].lines
                  IN  /\ queue' = Append(queue, s)
                      /\ s.sig = "error"
                      /\ Contains(s.msg, "Error parsing command output")
                      /\ \A i \in 1..Len(lines) : Contains(s.msg, lines[i]) <=> (i <= 10)
                      /\ workers'[w].pc = "done"
         ]_vars

\* a command wrote MaxOutput lines, the parser raised, and the error carries the
\* tenth line and not the last
C17_Witness ==
    \E i \in 1..Len(queue) :
        /\ queue[i].kind = "parse"
        /\ written = MaxOutput
        /\ Contains(queue[i].msg, OutputLine(10))
        /\ ~Contains(queue[i].msg, OutputLine(MaxOutput))

\* C18: the classification of on_updates_error is total and unambiguous.  For
\* every error delivered to it, either on_updates_result (with the empty result)
\* and then _generic_finished are called, once each, or _generic_error is called
\* once; never both paths and never neither.  The success path is the one taken
\* exactly when the message holds a no-updates phrase.
C18_OnePathOnce ==
    (HandledLoad("updates") /\ last.sig = "error")
    => /\ last.calls \in { << "on_result", "_generic_finished" >>, << "_generic_error" >> }
       /\ (last.calls[1] = "on_result") <=> is_no_updates(last.msg)
       /\ is_no_updates(last.msg) => stored["updates"] = EmptyData

\* an error matching both the no-updates and the permission patterns has just
\* been handled, on the success path only
C18_Witness ==
    /\ HandledLoad("updates")
    /\ last.sig = "error"
    /\ is_no_updates(last.msg)
    /\ is_permission_error(last.msg)
    /\ last.calls = << "on_result", "_generic_finished" >>

\* the control thread is inside process.wait(timeout=2) of stop() and the process
\* has not ended: until it ends or the two seconds pass no queued signal is handled
ControlWaits == mpc = "stop_wait" /\ workers[stopw].proc = "alive"

\* C19 (as stated): the control thread never waits on the external process or on
\* a worker thread: no handler it runs (cancel_operation and stop(), closeEvent,
\* the result and error handlers) holds a blocking step.
C19_Original == ~ControlWaits

\* C19 (amended): the control thread waits only inside cancel_operation, in
\* stop(), and there for a bounded time: when the process has not ended after
\* the timeout of wait(), stop() kills it and returns.  The handlers of the
\* worker signals run without waiting.
C19_ControlWaitIsBounded ==
    /\ [][ (mpc = "idle" /\ mpc' # "idle") => last'.op = "cancel_operation" ]_vars
    /\ (ControlWaits ~> mpc = "idle")

\* stop() waited for a process that did not end, killed it and returned
C19_Witness ==
    /\ mpc = "idle"
    /\ \E w \in Slots : workers[w].stopped /\ workers[w].proc = "killed"

\* _generic_error or _command_action_error has just handled an error
HandledByErrorHandler ==
    /\ last.op = "deliver"
    /\ last.sig = "error"
    /\ last.route \in {"cancel", "fatal", "continue", "error"}

\* C20: cancellation and process failure are distinct.  _generic_error and
\* _command_action_error take their cancellation path exactly for the error a
\* worker emits because stop() cancelled it; a failure of the process, whatever
\* its stderr text, is not handled as a cancellation.
C20_CancelIffStopped ==
    HandledByErrorHandler => ((last.route = "cancel") <=> (last.kind = "cancelled"))

\* C21: after cancel_operation has called stop() on a running task, no error
\* dialog is shown for that task: the handler of an error the worker emits after
\* stop(), once its process was spawned, does not call show_error.
C21_NoDialogAfterCancel ==
    (/\ last.op = "deliver"
     /\ last.sig = "error"
     /\ last.afterStop
     /\ last.kind \in {"cancelled", "exitfail", "timeout"})
    => ~last.dialog

\* the signals queued for a CommandWorker that ran with pkexec absent from PATH
PkexecAbsent(s) == ~IsGeneric(s.task) /\ s.missing \in {"pkexec", "which,pkexec"}

EixInput == workers[1].lines
EixOutput == stored["available"].lines

\* the same result for every permutation of the lines and for the list
\* repeated, and the result parsed again is itself
EixOrderInsensitive ==
    /\ \A p \in Permutations(1..Len(EixInput)) :
           parse_eix_output([ i \in 1..Len(EixInput) |-> EixInput[p[i]] ]) = EixOutput
    /\ parse_eix_output(EixInput \o EixInput) = EixOutput
    /\ parse_eix_output(EixOutput) = EixOutput

\* the result is ascending without repetition
EixAscending ==
    \A i \in 1..Len(EixOutput) : \A j \in 1..Len(EixOutput) :
        i < j => StrLess(EixOutput[i], EixOutput[j])

C24_CancelledProcessEnded ==
    (/\ last.op = "deliver"
     /\ last.kind = "cancelled"
     /\ last.route = "cancel"
     /\ current_worker = 0)
    => (AliveProcesses = {} /\ orphans = 0)

\* C25: between handlers of the control thread, when the progress bar is hidden
\* or current_worker is None, no worker is executing a task and no terminal
\* signal is waiting to be handled.
C25_IndicatorsWhileActive ==
    (mpc = "idle" /\ (~progress_visible \/ current_worker = 0))
    => /\ Executing = {}
       /\ \A i \in 1..Len(queue) : ~Terminal(queue[i])

\* the control thread handles a queued signal of a load step in this step
Delivers(sig) ==
    /\ Len(queue') < Len(queue)
    /\ last'.op = "deliver"
    /\ last'.sig = sig
    /\ IsGeneric(last'.task)

\* C26: for a load step that succeeds, the result handler, which stores the
\* parsed payload, runs before _generic_finished.  The worker queues result and
\* then finished; the control thread stores the payload when it handles result,
\* and when it handles finished and starts the next step no result of that
\* worker is left to handle.
C26_ResultBeforeFinished ==
    /\ [][ (/\ Len(queue') > Len(queue)
            /\ queue'[Len(queue')].sig = "finished"
            /\ IsGeneric(queue'[Len(queue')].task))
           => /\ Len(queue') = Len(queue) + 2
              /\ SubSeq(queue', 1, Len(queue)) = queue
              /\ queue'[Len(queue') - 1].sig = "result"
              /\ queue'[Len(queue') - 1].w = queue'[Len(queue')].w ]_vars
    /\ [][ Delivers("result")
           => /\ \E i \in 1..Len(queue) :
                     /\ queue[i].w = last'.w
                     /\ queue[i].sig = "result"
                     /\ stored'[last'.task] = queue[i].payload
              /\ last'.started = 0 ]_vars
    /\ [][ Delivers("finished")
           => /\ stored' = stored
              /\ \A i \in 1..Len(queue') :
                     ~(queue'[i].w = last'.w /\ queue'[i].sig = "result") ]_vars

\* the first step succeeded with output: its payload is stored and its finished
\* signal has just started the second step
C26_Witness ==
    /\ HandledLoad("installed")
    /\ last.sig = "finished"
    /\ stored["installed"] # EmptyData
    /\ StartedStep("available", LOAD_STEP_UPDATES)

\* worker w is constructed in this step
Starts(w) == workers[w].pc # "start" /\ workers'[w].pc = "start"

\* the control thread handles the terminal signal sig of the command task in
\* this step
DeliversCommand(task, sig) ==
    /\ Len(queue') < Len(queue)
    /\ last'.op = "deliver"
    /\ last'.task = task
    /\ last'.sig = sig

\* the control thread has just handled the terminal signal sig of the command task
HandledCommand(task, sig) ==
    /\ last.op = "deliver"
    /\ last.task = task
    /\ last.sig = sig

\* C27: when an install, uninstall or update command has finished with success,
\* its handler clears current_worker and then starts the load sequence from
\* LOAD_STEP_INSTALLED, once: refresh_all is not refused and one worker is
\* constructed, for INSTALLED.  When the command has failed or was cancelled,
\* its handler clears current_worker and constructs no worker.
C27_RefreshAfterAction ==
    /\ [][ DeliversCommand("action", "finished")
           => /\ ~last'.busy
              /\ \E w \in Slots :
                    /\ Starts(w)
                    /\ workers'[w].task = "installed"
                    /\ workers'[w].cb = LOAD_STEP_AVAILABLE
                    /\ current_worker' = w
                    /\ \A v \in Slots \ {w} : ~Starts(v) ]_vars
    /\ [][ DeliversCommand("action", "error")
           => /\ current_worker' = 0
              /\ \A w \in Slots : ~Starts(w) ]_vars

\* an install has just finished and the handler started the INSTALLED step
C27_Witness ==
    /\ HandledCommand("action", "finished")
    /\ StartedStep("installed", LOAD_STEP_AVAILABLE)
    /\ progress_visible

\* after run_sync only emerge --sync and the update check ever run, the update
\* check constructed with LOAD_STEP_COMPLETE and only by the handler of the
\* finished signal of emerge --sync, which constructs just that one worker
SyncFollowUp ==
    /\ [](\A w \in Slots :
             /\ workers[w].task \in {"none", "sync", "updates"}
             /\ (workers[w].task = "updates" => workers[w].cb = LOAD_STEP_COMPLETE))
    /\ [][ \A w \in Slots :
              Starts(w) => DeliversCommand("sync", "finished") ]_vars
    /\ [][ DeliversCommand("sync", "finished")
           => \E w \in Slots :
                 /\ Starts(w)
                 /\ workers'[w].task = "updates"
                 /\ current_worker' = w
                 /\ \A v \in Slots \ {w} : ~Starts(v) ]_vars

C29_FailureStoresNothing ==
    /\ [](\A i \in 1..Len(queue) : \A j \in 1..Len(queue) :
             (/\ queue[i].sig = "error"
              /\ IsGeneric(queue[i].task)
              /\ queue[j].w = queue[i].w)
             => queue[j].sig # "result")
    /\ [][ (Delivers("error") /\ last'.classified # "no_updates")
           => /\ stored' = stored
              /\ \A k \in 1..Len(last'.calls) : last'.calls[k] # "on_result" ]_vars

\* the first step stored its packages, the second has just failed at launch,
\* and the stored packages are still there
C29_Witness ==
    /\ HandledLoad("available")
    /\ last.kind = "launch"
    /\ stored["installed"] # EmptyData
    /\ stored["available"] = EmptyData

\* the worker is inside readline() on stdout with nothing to read
StdoutReadBlocked(w) == workers[w].pc = "read" /\ ReadBlocked(workers[w])

\* the process is inside a write to stderr and the pipe is full
StderrWriteBlocked(w) ==
    /\ workers[w].proc = "alive"
    /\ workers[w].errleft > 0
    /\ workers[w].errbuf = PipeCapacity

\* C30: reading stderr only after the stdout loop never deadlocks: with pipes
\* of bounded capacity the worker is never blocked reading stdout while the
\* process is blocked writing to a full stderr pipe.
C30_NoPipeDeadlock ==
    \A w \in Slots : ~(StdoutReadBlocked(w) /\ StderrWriteBlocked(w))

====
